---- MODULE Spec2Model ----
(***************************************************************************)
(* Ingestion pipeline of fiscalia: NFeProcessor (process_file,             *)
(* process_uploaded_file, process_batch), BatchProcessorTool._run,         *)
(* FileHandler (the three folders) and the document store with its         *)
(* outcome log.                                                            *)
(*                                                                         *)
(* A file is an object with a name, a content and a folder.  A path is a   *)
(* folder and a name; what a path denotes is looked up again at every      *)
(* step, as the code does.  Each call of process_file is a sequence of     *)
(* steps of one worker: one step per access to the store or to the file    *)
(* system, so that calls of two workers interleave at those accesses and   *)
(* a fault can hit each access separately.                                 *)
(***************************************************************************)
EXTENDS Integers, Sequences, FiniteSets, TLC

\* ------------------------------------------------------------------ bounds
MaxFiles  == 2      \* file objects ever created
MaxOps    == 2      \* top-level calls ever started
MaxClock  == 1      \* seconds the wall clock advances
MaxFaults == 1      \* faults of the store or of the file system

Workers == {1, 2}

\* --------------------------------------------------------------- constants
SUPPORTED_EXTENSIONS == {"xml", "pdf", "png", "jpg", "jpeg"}

DefaultMaxFiles == 100

Dirs == {"entrados", "processados", "rejeitados"}

\* names a file can have when it enters the system: <stem>.<ext>; a name
\* that went through a collision carries the timestamps appended to its stem
SourceNames ==
    { [stem |-> "a", ts |-> <<>>, ext |-> "xml"],
      [stem |-> "c", ts |-> <<>>, ext |-> "txt"] }

NoName == [stem |-> "", ts |-> <<>>, ext |-> ""]

\* the files that arrive from outside, a name and a content: k1 and k2 are
\* well-formed invoices with access keys 1 and 2, bad is a file from which
\* no access key is extracted
SourceFiles ==
    { [name |-> [stem |-> "a", ts |-> <<>>, ext |-> "xml"], content |-> "k1"],
      [name |-> [stem |-> "a", ts |-> <<>>, ext |-> "xml"], content |-> "k2"],
      [name |-> [stem |-> "a", ts |-> <<>>, ext |-> "xml"], content |-> "bad"],
      [name |-> [stem |-> "c", ts |-> <<>>, ext |-> "txt"], content |-> "bad"] }

VARIABLES
    files,      \* file id -> [name, content, loc]
    nfiles,     \* number of file objects created so far
    docs,       \* docs_para_ERP: sequence of [id, chave, erp]
    log,        \* registo_resultados: sequence of outcome records
    now,        \* the last reading of the wall clock, in seconds
    ops,        \* number of top-level calls started
    faults,     \* number of faults injected
    wk,         \* worker -> the worker's call frame
    val,        \* the NFValidator object and the call made on it
    xp          \* the XMLProcessor object and the document handed to it

vars == <<files, nfiles, docs, log, now, ops, faults, wk, val, xp>>

\* ------------------------------------------------------------ file system
FileIds == 1..MaxFiles

Existing == {f \in FileIds : files[f].loc \in Dirs}

InDir(d) == {f \in FileIds : files[f].loc = d}

\* the file a path denotes, 0 when the path does not exist
FileAt(d, n) ==
    IF \E f \in FileIds : files[f].loc = d /\ files[f].name = n
    THEN CHOOSE f \in FileIds : files[f].loc = d /\ files[f].name = n
    ELSE 0

PathOf(f) == [dir |-> files[f].loc, name |-> files[f].name]

\* None where a path is expected
NoPath == [dir |-> "", name |-> NoName]

\* the extension left unread: every file is supported
is_any_file(n) == TRUE

\* FileHandler.is_supported_file
is_supported_file(n) == n.ext \in SUPPORTED_EXTENSIONS

\* "<stem>_<timestamp><suffix>"
Stamped(n, t) == [n EXCEPT !.ts = Append(n.ts, t)]

\* datetime.now(): the readings the clock can give after the last one
Readings == now..MaxClock

\* the clock is read only when the name is taken in folder d
ClockRead(d, n) == IF FileAt(d, n) # 0 THEN Readings ELSE {now}

\* destination name chosen by _move_file / copy_to_entrados, the clock
\* reading t
dest_path(d, n, t) == IF FileAt(d, n) # 0 THEN Stamped(n, t) ELSE n

\* the file system after shutil.move(src, d/n): the file changes folder and
\* name; a file already at d/n is replaced
shutil_move(f, d, n) ==
    [g \in FileIds |->
        IF g = f THEN [files[g] EXCEPT !.loc = d, !.name = n]
        ELSE IF files[g].loc = d /\ files[g].name = n
             THEN [files[g] EXCEPT !.loc = "gone"]
             ELSE files[g]]

\* the check of line 172 left out: a missing source is reported as moved
_move_file_unchecked(p, d, t) ==
    LET f == FileAt(p.dir, p.name)
        n == dest_path(d, p.name, t)
    IN [ok |-> TRUE, path |-> [dir |-> d, name |-> n],
        fs |-> IF f = 0 THEN files ELSE shutil_move(f, d, n)]

\* FileHandler._move_file: (ok, new path) and the file system after a move
\* that the file system carries out, the clock reading t
_move_file(p, d, t) ==
    LET f == FileAt(p.dir, p.name)
        n == dest_path(d, p.name, t)
    IN IF f = 0 THEN [ok |-> FALSE, path |-> NoPath, fs |-> files]
       ELSE [ok |-> TRUE, path |-> [dir |-> d, name |-> n],
             fs |-> shutil_move(f, d, n)]

\* FileHandler.move_to_processed, FileHandler.move_to_rejected
move_to_processed(p, t) == _move_file(p, "processados", t)

move_to_rejected(p, t) == _move_file(p, "rejeitados", t)

\* ------------------------------------------------------------------ store
\* XMLProcessor._extract_metadata: the access key of a content, 0 for none
\* (k1b has the access key of k1 and other bytes; k9 is well-formed and its
\* chNFe holds three digits)
chave_acesso(c) ==
    CASE c = "k1" -> 1 [] c = "k1b" -> 1 [] c = "k2" -> 2 [] c = "k9" -> 9
      [] OTHER -> 0

\* the text of an access key: 44 digits for the keys 1 and 2, "123" for 9
KeyText(k) ==
    CASE k = 1 -> [i \in 1..44 |-> 1]
      [] k = 2 -> [i \in 1..44 |-> 2]
      [] k = 9 -> <<1, 2, 3>>
      [] OTHER -> <<>>

\* NFValidator.CHAVE_NFE_PATTERN: ^\d{44}$
CHAVE_NFE_PATTERN(s) == Len(s) = 44 /\ \A i \in 1..Len(s) : s[i] \in 0..9

\* hashlib.md5(bytes).hexdigest(): equal for equal bytes, taken as distinct
\* for distinct bytes
hash_arquivo(c) == <<"md5", c>>

Chaves(ds) == {ds[i].chave : i \in DOMAIN ds}

\* the column declared without unique=True
NoUniqueConstraint(ds, k) == FALSE

\* unique=True on docs_para_ERP.chave_acesso
UniqueViolation(ds, k) == k \in Chaves(ds)

check_documento_existe(k) == k \in Chaves(docs)

\* the arquivo_hash column of a row: the hash of the bytes it was read from
arquivo_hash(d) == hash_arquivo(files[d.fid].content)

\* DatabaseManager.check_duplicate_by_hash
check_duplicate_by_hash(h) == \E i \in DOMAIN docs : arquivo_hash(docs[i]) = h

\* the outcome record add_resultado receives; fid is the file the call was
\* working on (kept for the properties, the table has no such column)
Resultado(p, f, res, causa) ==
    [dir |-> p.dir, name |-> p.name, fid |-> f, resultado |-> res, causa |-> causa]

\* ----------------------------------------------------------- call frames
Frame0 ==
    [pc |-> "idle", mode |-> "none", path |-> NoPath, fid |-> 0, chave |-> 0,
     br |-> "none", nOut |-> 0, nMove |-> 0, success |-> FALSE,
     queue |-> <<>>, listed |-> <<>>, handed |-> 0,
     total |-> 0, sucesso |-> 0, falha |-> 0, duplicado |-> 0, ndet |-> 0,
     ret |-> "none", folder |-> "", pend0 |-> {}, cnt0 |-> 0, upc |-> "none",
     fatal |-> FALSE, moved |-> NoPath, doc_id |-> 0, max_files |-> 0,
     temp |-> {}]

\* the frame when process_file(p) is entered: the per-call fields are reset
Enter(fr, p) ==
    [fr EXCEPT !.pc = "begin", !.path = p, !.fid = 0, !.chave = 0,
               !.br = "none", !.nOut = 0, !.nMove = 0, !.success = FALSE,
               !.moved = NoPath]

\* the frame a call leaves behind: what it returned, the per-call fields
\* cleared
Done(fr, r) ==
    [fr EXCEPT !.pc = "idle", !.ret = r, !.path = NoPath, !.fid = 0,
               !.chave = 0, !.br = "none", !.nOut = 0, !.nMove = 0,
               !.moved = NoPath]

\* paths a caller can hand in: every existing file, and the source names in
\* entrados whether they exist or not
CallPaths ==
    {PathOf(f) : f \in Existing}
    \cup {[dir |-> "entrados", name |-> n] : n \in SourceNames}

\* FileHandler.validar_extensao
validar_extensao(n) == is_supported_file(n)

\* ----------------------------------------------------------- process_file
\* lines 161-200: existence, extension, extraction and the access key
Begin(w) ==
    /\ wk[w].pc = "begin"
    /\ LET p == wk[w].path
           f == FileAt(p.dir, p.name)
           k == IF f = 0 THEN 0 ELSE chave_acesso(files[f].content)
       IN wk' = [wk EXCEPT ![w] =
             IF f = 0
             THEN [@ EXCEPT !.pc = "ret", !.br = "missing"]
             ELSE IF ~validar_extensao(p.name)
             THEN [@ EXCEPT !.pc = "move", !.br = "inv", !.fid = f]
             ELSE IF k = 0
             THEN [@ EXCEPT !.pc = "move", !.br = "xml", !.fid = f]
             ELSE [@ EXCEPT !.pc = "check", !.chave = k, !.fid = f]]
    /\ UNCHANGED <<xp, val, files, nfiles, docs, log, now, ops, faults>>

\* the existence check left out: every file goes on to the insert
CheckSkipped(w) ==
    /\ wk[w].pc = "check"
    /\ wk' = [wk EXCEPT ![w].pc = "insert"]
    /\ UNCHANGED <<xp, val, files, nfiles, docs, log, now, ops, faults>>

\* lines 202-204: the existence check
Check(w) ==
    /\ wk[w].pc = "check"
    /\ wk' = [wk EXCEPT ![w] =
          IF check_documento_existe(wk[w].chave)
          THEN [@ EXCEPT !.pc = "move", !.br = "dup"]
          ELSE [@ EXCEPT !.pc = "insert"]]
    /\ UNCHANGED <<xp, val, files, nfiles, docs, log, now, ops, faults>>

\* what add_documento gives back: an id, or on a violated constraint
\* either no id or the error of the session
add_documento(ds, k) ==
    IF UniqueViolation(ds, k) THEN {"none", "raise"} ELSE {"id"}

\* lines 224-227 and 244: the insert and the branch on doc_id
Insert(w) ==
    /\ wk[w].pc = "insert"
    /\ \E r \in add_documento(docs, wk[w].chave) :
          /\ docs' = IF r = "id"
                     THEN Append(docs, [id |-> Len(docs) + 1, chave |-> wk[w].chave,
                                        erp |-> "No", fid |-> wk[w].fid])
                     ELSE docs
          /\ wk' = [wk EXCEPT ![w].pc = "move",
                              ![w].br = CASE r = "id" -> "ok"
                                          [] r = "none" -> "db"
                                          [] OTHER -> "exc"]
    /\ UNCHANGED <<xp, val, files, nfiles, log, now, ops, faults>>

\* the folder a branch moves its file to
Destino(br) == IF br = "ok" THEN "processados" ELSE "rejeitados"

\* lines 170, 188, 207, 228, 245, 263: the move, whose result is not read
Move(w) ==
    /\ wk[w].pc = "move"
    /\ LET p == wk[w].path
           d == Destino(wk[w].br)
       IN \E t \in (IF FileAt(p.dir, p.name) # 0 THEN ClockRead(d, p.name) ELSE {now}) :
             LET r == IF d = "processados" THEN move_to_processed(p, t)
                      ELSE move_to_rejected(p, t)
             IN /\ files' = r.fs
                /\ now' = t
                /\ wk' = [wk EXCEPT ![w].pc = "log",
                                    ![w].nMove = @ + (IF r.ok THEN 1 ELSE 0),
                                    ![w].moved = r.path]
    /\ UNCHANGED <<xp, val, nfiles, docs, log, ops, faults>>

Causa(br) == br

\* lines 172, 190, 209, 230, 247, 265: the outcome record
Log(w) ==
    /\ wk[w].pc = "log"
    /\ log' = Append(log, Resultado(wk[w].path, wk[w].fid,
                                    IF wk[w].br = "ok" THEN "Sucesso" ELSE "Insucesso",
                                    Causa(wk[w].br)))
    /\ wk' = [wk EXCEPT ![w].pc = "ret", ![w].nOut = @ + 1,
                        ![w].success = (wk[w].br = "ok")]
    /\ UNCHANGED <<xp, val, files, nfiles, docs, now, ops, faults>>

\* ------------------------------------------------------------------ faults
\* a fault of the store marks the frame: fatal records that the store failed
\* during the call (kept for the properties, the code keeps no such flag)
\* check_documento_existe raises: line 259
CheckFault(w) ==
    /\ wk[w].pc = "check"
    /\ faults < MaxFaults
    /\ faults' = faults + 1
    /\ wk' = [wk EXCEPT ![w].pc = "move", ![w].br = "exc", ![w].fatal = TRUE]
    /\ UNCHANGED <<xp, val, files, nfiles, docs, log, now, ops>>

\* the store fails at add_documento: no row, and no id or an error
InsertFault(w) ==
    /\ wk[w].pc = "insert"
    /\ faults < MaxFaults
    /\ faults' = faults + 1
    /\ \E r \in {"db", "exc"} :
          wk' = [wk EXCEPT ![w].pc = "move", ![w].br = r, ![w].fatal = TRUE]
    /\ UNCHANGED <<xp, val, files, nfiles, docs, log, now, ops>>

\* shutil.move raises inside _move_file: lines 196-198 return (False, None)
MoveFault(w) ==
    /\ wk[w].pc = "move"
    /\ FileAt(wk[w].path.dir, wk[w].path.name) # 0
    /\ faults < MaxFaults
    /\ faults' = faults + 1
    /\ wk' = [wk EXCEPT ![w].pc = "log", ![w].moved = NoPath]
    /\ UNCHANGED <<xp, val, files, nfiles, docs, log, now, ops>>

\* add_resultado raises: line 259 from a branch, lines 270-271 from the handler
LogFault(w) ==
    /\ wk[w].pc = "log"
    /\ faults < MaxFaults
    /\ faults' = faults + 1
    /\ wk' = [wk EXCEPT ![w] =
          IF wk[w].br = "exc"
          THEN [@ EXCEPT !.pc = "ret", !.fatal = TRUE]
          ELSE [@ EXCEPT !.pc = "move", !.br = "exc", !.fatal = TRUE]]
    /\ UNCHANGED <<xp, val, files, nfiles, docs, log, now, ops>>

\* --------------------------------------------------------------- listings
StemRank(s) == CASE s = "a" -> 1 [] OTHER -> 2

\* order of two timestamp lists as the strings "_t1_t2" are ordered, a
\* shorter name before its extensions ('.' sorts before '_')
RECURSIVE TsLess(_, _)
TsLess(s, t) ==
    IF t = <<>> THEN FALSE
    ELSE IF s = <<>> THEN TRUE
    ELSE IF Head(s) # Head(t) THEN Head(s) < Head(t)
    ELSE TsLess(Tail(s), Tail(t))

NameLess(m, n) ==
    \/ StemRank(m.stem) < StemRank(n.stem)
    \/ StemRank(m.stem) = StemRank(n.stem) /\ TsLess(m.ts, n.ts)

\* sorted(files)
RECURSIVE sorted(_)
sorted(S) ==
    IF S = {} THEN <<>>
    ELSE LET m == CHOOSE x \in S : \A y \in S \ {x} : NameLess(x, y)
         IN <<m>> \o sorted(S \ {m})

NamesIn(d) == {files[f].name : f \in InDir(d)}

AsPaths(d, ns) == [i \in DOMAIN ns |-> [dir |-> d, name |-> ns[i]]]

\* FileHandler.get_pending_files: the supported files of entrados, sorted
get_pending_files ==
    AsPaths("entrados", sorted({n \in NamesIn("entrados") : is_supported_file(n)}))

\* FileHandler.get_arquivos_entrados
get_arquivos_entrados == get_pending_files

\* the listing without the slice [:max_files]
glob_xml_unlimited(d, maxf) ==
    LET S == {n \in NamesIn(d) : n.ext = "xml"}
        P == {q \in [1..Cardinality(S) -> S] :
                 \A i, j \in 1..Cardinality(S) : i # j => q[i] # q[j]}
    IN {AsPaths(d, q) : q \in P}

\* list(path.glob("*.xml"))[:max_files]: the directory order is any order
glob_xml(d, maxf) ==
    LET S == {n \in NamesIn(d) : n.ext = "xml"}
        P == {q \in [1..Cardinality(S) -> S] :
                 \A i, j \in 1..Cardinality(S) : i # j => q[i] # q[j]}
    IN {AsPaths(d, SubSeq(q, 1, IF maxf < Len(q) THEN maxf ELSE Len(q))) : q \in P}

Terminal == InDir("processados") \cup InDir("rejeitados")

\* ------------------------------------------------- process_file, one call
StartSingle(w) ==
    /\ wk[w].pc = "idle"
    /\ ops < MaxOps
    /\ ops' = ops + 1
    /\ \E p \in CallPaths :
          wk' = [wk EXCEPT ![w] = Enter([Frame0 EXCEPT !.mode = "single"], p)]
    /\ UNCHANGED <<xp, val, files, nfiles, docs, log, now, faults>>

RetSingle(w) ==
    /\ wk[w].pc = "ret"
    /\ wk[w].mode \in {"single", "upload"}
    /\ wk' = [wk EXCEPT ![w] = Frame0]
    /\ UNCHANGED <<xp, val, files, nfiles, docs, log, now, ops, faults>>

\* ---------------------------------------------------------- process_batch
\* lines 312-329: the listing, the empty batch, the first file
StartBatch(w) ==
    /\ wk[w].pc = "idle"
    /\ ops < MaxOps
    /\ ops' = ops + 1
    /\ LET arquivos == get_arquivos_entrados
           fr == [Frame0 EXCEPT !.mode = "batch", !.listed = arquivos,
                                !.folder = "entrados",
                                !.pend0 = InDir("entrados"),
                                !.cnt0 = Cardinality(Terminal)]
       IN wk' = [wk EXCEPT ![w] =
             IF arquivos = <<>>
             THEN [fr EXCEPT !.ret = "empty"]
             ELSE Enter([fr EXCEPT !.queue = Tail(arquivos), !.handed = 1],
                        Head(arquivos))]
    /\ UNCHANGED <<xp, val, files, nfiles, docs, log, now, faults>>

\* lines 330-344: the result of one file, then the next file or the total
RetBatch(w) ==
    /\ wk[w].pc = "ret"
    /\ wk[w].mode = "batch"
    /\ LET fr == [wk[w] EXCEPT
                    !.ndet = @ + 1,
                    !.sucesso = @ + (IF wk[w].success THEN 1 ELSE 0),
                    !.falha = @ + (IF wk[w].success THEN 0 ELSE 1)]
       IN wk' = [wk EXCEPT ![w] =
             IF fr.queue = <<>>
             THEN Done([fr EXCEPT !.total = Len(fr.listed)], "aggregate")
             ELSE Enter([fr EXCEPT !.queue = Tail(fr.queue), !.handed = @ + 1],
                        Head(fr.queue))]
    /\ UNCHANGED <<xp, val, files, nfiles, docs, log, now, ops, faults>>

\* get_arquivos_entrados raises: lines 346-351
ListFault(w) ==
    /\ wk[w].pc = "idle"
    /\ ops < MaxOps
    /\ faults < MaxFaults
    /\ ops' = ops + 1
    /\ faults' = faults + 1
    /\ wk' = [wk EXCEPT ![w] =
          [Frame0 EXCEPT !.mode = "batch", !.ret = "error",
                         !.folder = "entrados",
                         !.pend0 = InDir("entrados"),
                         !.cnt0 = Cardinality(Terminal)]]
    /\ UNCHANGED <<xp, val, files, nfiles, docs, log, now>>

\* ------------------------------------------------ BatchProcessorTool._run
\* lines 60-89: the folder, the listing, the counters, the first file
StartRun(w) ==
    /\ wk[w].pc = "idle"
    /\ ops < MaxOps
    /\ ops' = ops + 1
    /\ \E d \in Dirs, maxf \in {1, DefaultMaxFiles} :
       \E xml_files \in glob_xml(d, maxf) :
          LET fr == [Frame0 EXCEPT !.mode = "tool", !.listed = xml_files,
                                   !.folder = d, !.max_files = maxf,
                                   !.pend0 = InDir(d),
                                   !.cnt0 = Cardinality(Terminal)]
          IN wk' = [wk EXCEPT ![w] =
                IF xml_files = <<>>
                THEN [fr EXCEPT !.ret = "nofiles"]
                ELSE Enter([fr EXCEPT !.queue = Tail(xml_files), !.handed = 1,
                                      !.total = Len(xml_files)],
                           Head(xml_files))]
    /\ UNCHANGED <<xp, val, files, nfiles, docs, log, now, faults>>

\* lines 91-112 and 143-145: on success the counter is raised and then
\* result['data'] is read, a key process_file does not return
RetRun(w) ==
    /\ wk[w].pc = "ret"
    /\ wk[w].mode = "tool"
    /\ wk' = [wk EXCEPT ![w] =
          IF wk[w].success
          THEN Done([@ EXCEPT !.sucesso = @ + 1], "error")
          ELSE LET fr == IF wk[w].br = "dup"
                         THEN [wk[w] EXCEPT !.duplicado = @ + 1, !.ndet = @ + 1]
                         ELSE [wk[w] EXCEPT !.falha = @ + 1, !.ndet = @ + 1]
               IN IF fr.queue = <<>>
                  THEN Done(fr, "report")
                  ELSE Enter([fr EXCEPT !.queue = Tail(fr.queue), !.handed = @ + 1],
                             Head(fr.queue))]
    /\ UNCHANGED <<xp, val, files, nfiles, docs, log, now, ops, faults>>

\* --------------------------------------------------- process_uploaded_file
\* the pre-check with the finally clause left out: the temporary file stays
_verificar_duplicado_sem_unlink(conteudo_bytes, temp) ==
    LET temp_path == <<"temp", hash_arquivo(conteudo_bytes)>>
        chave == chave_acesso(conteudo_bytes)
    IN [dup |-> chave # 0 /\ check_documento_existe(chave),
        chave |-> chave,
        temp |-> temp \cup {temp_path}]

\* _verificar_duplicado_antes_salvar: the bytes are written to
\* temp/temp_<md5>.xml, loaded and looked up by access key; the finally
\* clause unlinks the temporary file on every path; temp is the set of
\* temporary files before and after
_verificar_duplicado_antes_salvar(conteudo_bytes, temp) ==
    LET temp_path == <<"temp", hash_arquivo(conteudo_bytes)>>
        written == temp \cup {temp_path}
        chave == chave_acesso(conteudo_bytes)
    IN [dup |-> chave # 0 /\ check_documento_existe(chave),
        chave |-> chave,
        temp |-> written \ {temp_path}]

\* lines 282-294: the upload is refused when the pre-check reports a
\* duplicate
StartUpload(w) ==
    /\ wk[w].pc = "idle"
    /\ ops < MaxOps
    /\ nfiles < MaxFiles
    /\ ops' = ops + 1
    /\ \E src \in SourceFiles :
          LET c == src.content
              n == src.name
              r == _verificar_duplicado_antes_salvar(c, wk[w].temp)
              fr == [Frame0 EXCEPT !.mode = "upload", !.upc = c,
                                   !.path = [dir |-> "entrados", name |-> n],
                                   !.temp = r.temp]
          IN wk' = [wk EXCEPT ![w] =
                IF r.dup
                THEN [fr EXCEPT !.ret = "blocked"]
                ELSE [fr EXCEPT !.pc = "write"]]
    /\ UNCHANGED <<xp, val, files, nfiles, docs, log, now, faults>>

\* lines 296-299: write_bytes on entrados/<name>, then process_file
UpWrite(w) ==
    /\ wk[w].pc = "write"
    /\ nfiles < MaxFiles
    /\ nfiles' = nfiles + 1
    /\ LET p == wk[w].path
           old == FileAt(p.dir, p.name)
       IN files' = [g \in FileIds |->
             IF g = nfiles + 1
             THEN [name |-> p.name, content |-> wk[w].upc, loc |-> "entrados"]
             ELSE IF g = old THEN [files[g] EXCEPT !.loc = "gone"]
             ELSE files[g]]
    /\ wk' = [wk EXCEPT ![w] = Enter(wk[w], wk[w].path)]
    /\ UNCHANGED <<xp, val, docs, log, now, ops, faults>>

\* --------------------------------------------- FileHandler.copy_to_entrados
\* a file from outside is copied into entrados, under a stamped name when
\* its own name is taken
copy_to_entrados(w) ==
    /\ wk[w].pc = "idle"
    /\ nfiles < MaxFiles
    /\ nfiles' = nfiles + 1
    /\ \E src \in SourceFiles :
       \E t \in ClockRead("entrados", src.name) :
          LET c == src.content
              n == src.name
              dn == dest_path("entrados", n, t)
              old == FileAt("entrados", dn)
          IN /\ now' = t
             /\ files' = [g \in FileIds |->
                   IF g = nfiles + 1
                   THEN [name |-> dn, content |-> c, loc |-> "entrados"]
                   ELSE IF g = old THEN [files[g] EXCEPT !.loc = "gone"]
                   ELSE files[g]]
    /\ wk' = [wk EXCEPT ![w] = Frame0]
    /\ UNCHANGED <<xp, val, docs, log, ops, faults>>

\* ------------------------------------ DatabaseManager.check_duplicate_by_hash
\* a caller asks whether a file of entrados is a duplicate, by its hash
DetectByHash(w) ==
    /\ wk[w].pc = "idle"
    /\ ops < MaxOps
    /\ ops' = ops + 1
    /\ \E f \in InDir("entrados") :
          wk' = [wk EXCEPT ![w] =
             [Frame0 EXCEPT !.mode = "hash", !.fid = f,
                            !.ret = IF check_duplicate_by_hash(hash_arquivo(files[f].content))
                                    THEN "dup" ELSE "new"]]
    /\ UNCHANGED <<xp, val, files, nfiles, docs, log, now, faults>>

\* ---------------------------------- DatabaseManager.update_doc_erp_processado
\* the ids a caller can hand in: those of the stored documents and one more
DocIds == 1..(MaxFiles + 1)

\* every document marked instead of the one that was asked for
update_all_docs_erp_processado(w) ==
    /\ wk[w].pc = "idle"
    /\ ops < MaxOps
    /\ ops' = ops + 1
    /\ \E doc_id \in DocIds :
          /\ docs' = [i \in DOMAIN docs |-> [docs[i] EXCEPT !.erp = "Yes"]]
          /\ wk' = [wk EXCEPT ![w] =
                [Frame0 EXCEPT !.mode = "erp", !.doc_id = doc_id,
                               !.ret = IF doc_id \in DOMAIN docs THEN "true" ELSE "false"]]
    /\ UNCHANGED <<xp, val, files, nfiles, log, now, faults>>

\* DatabaseManager.update_doc_erp_processado(doc_id)
update_doc_erp_processado(w) ==
    /\ wk[w].pc = "idle"
    /\ ops < MaxOps
    /\ ops' = ops + 1
    /\ \E doc_id \in DocIds :
          /\ docs' = IF doc_id \in DOMAIN docs
                     THEN [docs EXCEPT ![doc_id].erp = "Yes"]
                     ELSE docs
          /\ wk' = [wk EXCEPT ![w] =
                [Frame0 EXCEPT !.mode = "erp", !.doc_id = doc_id,
                               !.ret = IF doc_id \in DOMAIN docs THEN "true" ELSE "false"]]
    /\ UNCHANGED <<xp, val, files, nfiles, log, now, faults>>

\* ------------------------------------------------- NFValidator: the strings
\* a string is the sequence of its character codes: 0..9 are the digits
\* '0'..'9', Letter is a character that is no digit
Digits == 0..9

Letter == 10

\* str.isdigit
isdigit(s) == Len(s) > 0 /\ \A i \in 1..Len(s) : s[i] \in Digits

\* NFValidator.CNPJ_PATTERN: ^\d{14}$
CNPJ_PATTERN(s) == Len(s) = 14 /\ \A i \in 1..Len(s) : s[i] \in Digits

\* NFValidator.CPF_PATTERN: ^\d{11}$
CPF_PATTERN(s) == Len(s) = 11 /\ \A i \in 1..Len(s) : s[i] \in Digits

\* sum(int(d) * w for d, w in zip(cnpj_base, weights))
RECURSIVE zip_sum(_, _)
zip_sum(b, w) ==
    IF b = <<>> \/ w = <<>> THEN 0
    ELSE Head(b) * Head(w) + zip_sum(Tail(b), Tail(w))

\* calc_digit of validate_cnpj
calc_digit_cnpj(cnpj_base, weights) ==
    LET resto == zip_sum(cnpj_base, weights) % 11
    IN IF resto < 2 THEN 0 ELSE 11 - resto

weights1 == <<5, 4, 3, 2, 9, 8, 7, 6, 5, 4, 3, 2>>

weights2 == <<6, 5, 4, 3, 2, 9, 8, 7, 6, 5, 4, 3, 2>>

\* the second check digit left unread
validate_cnpj_first_digit_only(cnpj) ==
    IF cnpj = <<>> \/ Len(cnpj) # 14 \/ ~isdigit(cnpj) THEN FALSE
    ELSE cnpj[13] = calc_digit_cnpj(SubSeq(cnpj, 1, 12), weights1)

\* NFValidator.validate_cnpj
validate_cnpj(cnpj) ==
    IF cnpj = <<>> \/ Len(cnpj) # 14 \/ ~isdigit(cnpj) THEN FALSE
    ELSE IF cnpj[13] # calc_digit_cnpj(SubSeq(cnpj, 1, 12), weights1) THEN FALSE
    ELSE cnpj[14] = calc_digit_cnpj(SubSeq(cnpj, 1, 13), weights2)

\* sum(int(d) * (multiplier - i) for i, d in enumerate(cpf_base)), from the
\* i-th character on (i counted from 1 here)
RECURSIVE enumerate_sum(_, _, _)
enumerate_sum(b, multiplier, i) ==
    IF i > Len(b) THEN 0
    ELSE b[i] * (multiplier - (i - 1)) + enumerate_sum(b, multiplier, i + 1)

\* calc_digit of validate_cpf
calc_digit_cpf(cpf_base, multiplier) ==
    LET resto == enumerate_sum(cpf_base, multiplier, 1) % 11
    IN IF resto < 2 THEN 0 ELSE 11 - resto

\* the test of line 327 left out
validate_cpf_no_sequence_test(cpf) ==
    IF cpf = <<>> \/ Len(cpf) # 11 \/ ~isdigit(cpf) THEN FALSE
    ELSE IF cpf[10] # calc_digit_cpf(SubSeq(cpf, 1, 9), 10) THEN FALSE
    ELSE cpf[11] = calc_digit_cpf(SubSeq(cpf, 1, 10), 11)

\* NFValidator.validate_cpf
validate_cpf(cpf) ==
    IF cpf = <<>> \/ Len(cpf) # 11 \/ ~isdigit(cpf) THEN FALSE
    ELSE IF cpf = [i \in 1..11 |-> cpf[1]] THEN FALSE
    ELSE IF cpf[10] # calc_digit_cpf(SubSeq(cpf, 1, 9), 10) THEN FALSE
    ELSE cpf[11] = calc_digit_cpf(SubSeq(cpf, 1, 10), 11)

\* ----------------------------------------------- NFValidator: the amounts
\* a Python float (an IEEE 754 double) is kept exactly: its sign and its
\* magnitude in units of 2^-60, the magnitude written in three digits of
\* base 2^24, <<high, middle, low>>.  Every double between 2^-8 and 2^11 is
\* a whole number of these units, and so are their sums and differences.
B24 == 2^24

Zero3 == <<0, 0, 0>>

MLess(a, b) ==
    \/ a[1] < b[1]
    \/ a[1] = b[1] /\ a[2] < b[2]
    \/ a[1] = b[1] /\ a[2] = b[2] /\ a[3] < b[3]

MAdd(a, b) ==
    LET lo == a[3] + b[3]
        mi == a[2] + b[2] + (lo \div B24)
    IN <<a[1] + b[1] + (mi \div B24), mi % B24, lo % B24>>

\* a - b for a >= b
MSub(a, b) ==
    LET lo == a[3] - b[3]
        bl == IF lo < 0 THEN 1 ELSE 0
        mi == a[2] - b[2] - bl
        bm == IF mi < 0 THEN 1 ELSE 0
    IN <<a[1] - b[1] - bm, mi + bm * B24, lo + bl * B24>>

\* q * a for a small whole number q
MTimes(q, a) ==
    LET lo == q * a[3]
        mi == q * a[2] + (lo \div B24)
    IN <<q * a[1] + (mi \div B24), mi % B24, lo % B24>>

\* number of bits of h
BitLen(h) == CHOOSE k \in 0..31 : h < 2^k /\ (k = 0 \/ 2^(k - 1) <= h)

\* round to nearest, ties to even, at 53 significant bits; sticky tells
\* that the exact value lies above the magnitude m
Round53(m, sticky) ==
    IF m[1] < 32 THEN m
    ELSE LET s    == BitLen(m[1]) - 5
             q    == 2^s
             r    == m[3] % q
             half == q \div 2
             odd  == (m[3] \div q) % 2 = 1
             down == <<m[1], m[2], m[3] - r>>
         IN IF r > half \/ (r = half /\ (sticky \/ odd))
            THEN MAdd(down, <<0, 0, q>>)
            ELSE down

F(neg, m) == [neg |-> neg /\ m # Zero3, m |-> m]

\* XMLProcessor._get_decimal: float(text) for the text of c cents,
\* "<c div 100>.<c mod 100>": the double nearest to c / 100
_get_decimal(c) ==
    LET t1 == c * 4096
        t2 == (t1 % 100) * B24
        t3 == (t2 % 100) * B24
    IN F(FALSE, Round53(<<t1 \div 100, t2 \div 100, t3 \div 100>>, t3 % 100 # 0))

\* float(n) for a small whole number n
float(n) == F(FALSE, <<n * 4096, 0, 0>>)

\* x + y
fadd(x, y) ==
    IF x.neg = y.neg THEN F(x.neg, Round53(MAdd(x.m, y.m), FALSE))
    ELSE IF MLess(x.m, y.m) THEN F(y.neg, Round53(MSub(y.m, x.m), FALSE))
    ELSE F(x.neg, Round53(MSub(x.m, y.m), FALSE))

\* x - y
fsub(x, y) == fadd(x, F(~y.neg, y.m))

\* float(q) * x for a whole number q >= 0
fmul(q, x) == F(x.neg, Round53(MTimes(q, x.m), FALSE))

\* abs(x)
abs(x) == F(FALSE, x.m)

\* x > y
fgt(x, y) ==
    IF x.neg # y.neg THEN y.neg
    ELSE IF x.neg THEN MLess(x.m, y.m) ELSE MLess(y.m, x.m)

\* x <= 0, x < 0, x > 0
fle0(x) == x.neg \/ x.m = Zero3

flt0(x) == x.neg

fgt0(x) == ~fle0(x)

\* the literal 0.02
Tolerance == _get_decimal(2)

\* ------------------------------------------------ NFValidator: validate
\* a message of self.errors or self.warnings: its text and the number of
\* the item it is about, 0 for none
Msg(t) == <<t, 0>>

ItemMsg(i, t) == <<t, i>>

\* the list xs with msg appended when cond holds
Append_if(xs, cond, msg) == IF cond THEN Append(xs, msg) ELSE xs

\* the two lists of the validator
Lists(e, w) == [errors |-> e, warnings |-> w]

\* NFValidator.VALID_MODELOS, VALID_TIPOS_OPERACAO
VALID_MODELOS == {"55", "65"}

VALID_TIPOS_OPERACAO == {"0", "1"}

\* NFValidator._validate_metadata
_validate_metadata(v, metadata) ==
    LET chave == metadata.chave_acesso
        numero == metadata.numero
        e1 == Append_if(v.errors, chave # <<>> /\ ~CHAVE_NFE_PATTERN(chave),
                        Msg("Chave de acesso invalida"))
        e2 == Append_if(e1, numero = <<>> \/ ~isdigit(numero),
                        Msg("Numero da nota ausente ou invalido"))
        w1 == Append_if(v.warnings, metadata.modelo \notin VALID_MODELOS,
                        Msg("Modelo nao reconhecido"))
        w2 == Append_if(w1, metadata.tipo_operacao # ""
                              /\ metadata.tipo_operacao \notin VALID_TIPOS_OPERACAO,
                        Msg("Tipo de operacao nao reconhecido"))
        e3 == Append_if(e2, metadata.data_emissao = "", Msg("Data de emissao ausente"))
    IN Lists(e3, w2)

\* NFValidator._validate_emitente
_validate_emitente(v, emitente) ==
    LET cnpj == emitente.cnpj
        cpf == emitente.cpf
        razao == emitente.razao_social
        e1 == IF cnpj = <<>> /\ cpf = <<>>
              THEN Append(v.errors, Msg("Emitente sem CNPJ ou CPF"))
              ELSE IF cnpj # <<>> /\ ~CNPJ_PATTERN(cnpj)
              THEN Append(v.errors, Msg("CNPJ do emitente invalido"))
              ELSE IF cpf # <<>> /\ ~CPF_PATTERN(cpf)
              THEN Append(v.errors, Msg("CPF do emitente invalido"))
              ELSE v.errors
        e2 == Append_if(e1, razao = <<>> \/ Len(razao) < 3,
                        Msg("Razao social do emitente ausente ou invalida"))
        w1 == Append_if(v.warnings, emitente.inscricao_estadual = "",
                        Msg("Inscricao estadual do emitente ausente"))
        e3 == Append_if(e2, emitente.uf = "", Msg("UF do emitente ausente"))
        w2 == Append_if(w1, emitente.municipio = "",
                        Msg("Municipio do emitente ausente"))
    IN Lists(e3, w2)

\* NFValidator._validate_destinatario
_validate_destinatario(v, destinatario) ==
    LET cnpj == destinatario.cnpj
        cpf == destinatario.cpf
        e1 == IF cnpj # <<>> /\ ~CNPJ_PATTERN(cnpj)
              THEN Append(v.errors, Msg("CNPJ do destinatario invalido"))
              ELSE IF cpf # <<>> /\ ~CPF_PATTERN(cpf)
              THEN Append(v.errors, Msg("CPF do destinatario invalido"))
              ELSE v.errors
        w1 == Append_if(v.warnings, destinatario.razao_social = "",
                        Msg("Nome do destinatario ausente"))
    IN Lists(e1, w1)

\* NFValidator._validate_valores: the amounts are the floats _get_decimal
\* read from texts in whole cents
_validate_valores(v, valores) ==
    LET valor_total == _get_decimal(valores.valor_total)
        valor_produtos == _get_decimal(valores.valor_produtos)
        desconto == _get_decimal(valores.valor_desconto)
        frete == _get_decimal(valores.valor_frete)
        outros == _get_decimal(valores.valor_outros)
        valor_calculado == fadd(fadd(fsub(valor_produtos, desconto), frete), outros)
        diferenca == abs(fsub(valor_total, valor_calculado))
        e1 == Append_if(v.errors, fle0(valor_total),
                        Msg("Valor total da nota deve ser maior que zero"))
        e2 == Append_if(e1, fle0(valor_produtos),
                        Msg("Valor dos produtos deve ser maior que zero"))
        w1 == Append_if(v.warnings, fgt(diferenca, Tolerance),
                        Msg("Divergencia nos valores"))
        e3 == Append_if(e2, flt0(valor_produtos),
                        Msg("Valor dos produtos nao pode ser negativo"))
        w2 == Append_if(w1, flt0(desconto),
                        Msg("Valor do desconto nao pode ser negativo"))
    IN Lists(e3, w2)

\* the body of the loop of _validate_itens for item number i
validate_item(v, i, produto) ==
    LET qtd == float(produto.quantidade)
        valor_unit == _get_decimal(produto.valor_unitario)
        valor_total == _get_decimal(produto.valor_total)
        valor_calc == fmul(produto.quantidade, valor_unit)
        diferenca == abs(fsub(valor_total, valor_calc))
        w1 == Append_if(v.warnings, produto.codigo = "",
                        ItemMsg(i, "codigo do produto ausente"))
        e1 == Append_if(v.errors, produto.descricao = <<>> \/ Len(produto.descricao) < 3,
                        ItemMsg(i, "descricao invalida ou ausente"))
        w2 == IF produto.ncm = <<>> THEN Append(w1, ItemMsg(i, "NCM ausente"))
              ELSE IF ~isdigit(produto.ncm) \/ Len(produto.ncm) # 8
              THEN Append(w1, ItemMsg(i, "NCM invalido"))
              ELSE w1
        w3 == IF produto.cfop = <<>> THEN Append(w2, ItemMsg(i, "CFOP ausente"))
              ELSE IF ~isdigit(produto.cfop) \/ Len(produto.cfop) # 4
              THEN Append(w2, ItemMsg(i, "CFOP invalido"))
              ELSE w2
        e2 == Append_if(e1, fle0(qtd), ItemMsg(i, "quantidade deve ser maior que zero"))
        e3 == Append_if(e2, fle0(valor_unit),
                        ItemMsg(i, "valor unitario deve ser maior que zero"))
        e4 == Append_if(e3, fle0(valor_total),
                        ItemMsg(i, "valor total deve ser maior que zero"))
        w4 == Append_if(w3, fgt0(qtd) /\ fgt0(valor_unit) /\ fgt(diferenca, Tolerance),
                        ItemMsg(i, "Divergencia no valor total"))
    IN Lists(e4, w4)

\* the loop of _validate_itens from item number i on
RECURSIVE validate_itens_from(_, _, _)
validate_itens_from(v, itens, i) ==
    IF i > Len(itens) THEN v
    ELSE validate_itens_from(validate_item(v, i, itens[i]), itens, i + 1)

\* the test of line 188 left out: an empty list records nothing
_validate_itens_unchecked(v, itens) == validate_itens_from(v, itens, 1)

\* NFValidator._validate_itens
_validate_itens(v, itens) ==
    IF itens = <<>>
    THEN Lists(Append(v.errors, Msg("Nota fiscal sem itens")), v.warnings)
    ELSE validate_itens_from(v, itens, 1)

\* sum(item valor_total for item in itens), from item number i on and from
\* the partial sum acc
RECURSIVE sum_itens(_, _, _)
sum_itens(itens, i, acc) ==
    IF i > Len(itens) THEN acc
    ELSE sum_itens(itens, i + 1, fadd(acc, _get_decimal(itens[i].valor_total)))

\* NFValidator._validate_consistency
_validate_consistency(v, data) ==
    LET soma_itens == sum_itens(data.itens, 1, float(0))
        valor_produtos == _get_decimal(data.valores.valor_produtos)
        diferenca == abs(fsub(soma_itens, valor_produtos))
    IN Lists(v.errors,
             Append_if(v.warnings, data.itens # <<>> /\ fgt(diferenca, Tolerance),
                       Msg("Divergencia: soma dos itens")))

\* the two lists when validate(data) returns: lines 48-61
validated(data) ==
    LET v0 == Lists(<<>>, <<>>)
        v1 == _validate_metadata(v0, data.metadados)
        v2 == _validate_emitente(v1, data.emitente)
        v3 == _validate_destinatario(v2, data.destinatario)
        v4 == _validate_valores(v3, data.valores)
        v5 == _validate_itens(v4, data.itens)
    IN _validate_consistency(v5, data)

\* line 77 without the test of strict
result_ignoring_strict(v, strict) == Len(v.errors) = 0

\* lines 69-77: the result of validate
result(v, strict) ==
    LET has_errors == Len(v.errors) > 0
        has_warnings == Len(v.warnings) > 0
    IN ~has_errors /\ (~strict \/ ~has_warnings)

\* ------------------------------------------- NFValidator: inputs and calls
MaxCents == 5      \* amounts of a document, in cents
MaxFree  == 4      \* trailing digits of a CNPJ or CPF that vary

L3 == <<Letter, Letter, Letter>>

\* a CNPJ and a CPF with their check digits, and the same with the last
\* digit changed
CnpjValid == <<1, 1, 2, 2, 2, 3, 3, 3, 0, 0, 0, 1, 8, 1>>

CnpjBadSum == <<1, 1, 2, 2, 2, 3, 3, 3, 0, 0, 0, 1, 8, 2>>

CpfValid == <<5, 2, 9, 9, 8, 2, 2, 4, 7, 2, 5>>

CpfBadSum == <<5, 2, 9, 9, 8, 2, 2, 4, 7, 2, 6>>

\* the strings that differ from s in exactly one character, a digit
Alterations(s) ==
    {[s EXCEPT ![i] = d] : i \in 1..Len(s), d \in Digits} \ {s}

\* the decimal digits of n, left-padded with zeros to len characters
Pad(n, len) ==
    [i \in 1..len |-> IF len - i >= MaxFree THEN 0 ELSE (n \div 10^(len - i)) % 10]

Repeated(d, len) == [i \in 1..len |-> d]

CnpjInputs ==
    {Pad(n, 14) : n \in 0..(10^MaxFree - 1)}
    \cup Alterations(CnpjValid)
    \cup {CnpjValid, Repeated(1, 14), Repeated(1, 12), <<>>,
          SubSeq(CnpjValid, 1, 13), Append(CnpjValid, 0),
          [CnpjValid EXCEPT ![3] = Letter],
          <<1, 2, 3, 4, 5, 6, 7, 8, 9, 0, 1, 2, 3, 4>>}

CpfInputs ==
    {Pad(n, 11) : n \in 0..(10^MaxFree - 1)}
    \cup Alterations(CpfValid)
    \cup {Repeated(d, 11) : d \in Digits}
    \cup {CpfValid, <<>>, SubSeq(CpfValid, 1, 10), Append(CpfValid, 0),
          [CpfValid EXCEPT ![3] = Letter],
          <<1, 2, 3, 4, 5, 6, 7, 8, 9, 0, 1>>}

\* the parts of a document as XMLProcessor extracts them
Metadados(numero, modelo) ==
    [chave_acesso |-> KeyText(1), numero |-> numero, modelo |-> modelo,
     tipo_operacao |-> "1", data_emissao |-> "2024-01-15"]

Emitente(cnpj, cpf, razao) ==
    [cnpj |-> cnpj, cpf |-> cpf, razao_social |-> razao,
     inscricao_estadual |-> "IE", uf |-> "SP", municipio |-> "Sao Paulo"]

Destinatario(cnpj, cpf) ==
    [cnpj |-> cnpj, cpf |-> cpf, razao_social |-> "Cliente"]

Valores(total, produtos, desconto, frete, outros) ==
    [valor_total |-> total, valor_produtos |-> produtos,
     valor_desconto |-> desconto, valor_frete |-> frete, valor_outros |-> outros]

Produto(qtd, unit, total) ==
    [codigo |-> "P1", descricao |-> L3, ncm |-> Repeated(1, 8),
     cfop |-> Repeated(5, 4), quantidade |-> qtd, valor_unitario |-> unit,
     valor_total |-> total]

\* validate({}): every get gives its default
EmptyDoc ==
    [metadados |-> [chave_acesso |-> <<>>, numero |-> <<>>, modelo |-> "",
                    tipo_operacao |-> "", data_emissao |-> ""],
     emitente |-> [cnpj |-> <<>>, cpf |-> <<>>, razao_social |-> <<>>,
                   inscricao_estadual |-> "", uf |-> "", municipio |-> ""],
     destinatario |-> [cnpj |-> <<>>, cpf |-> <<>>, razao_social |-> ""],
     valores |-> Valores(0, 0, 0, 0, 0),
     itens |-> <<>>]

\* documents whose amounts agree and whose parties and metadata vary
PartyDocs ==
    {[metadados |-> Metadados(numero, modelo),
      emitente |-> Emitente(ec, ef, razao),
      destinatario |-> Destinatario(dc, df),
      valores |-> Valores(3, 3, 0, 0, 0),
      itens |-> <<Produto(1, 3, 3)>>] :
        numero \in {<<1, 2, 3>>, <<>>}, modelo \in {"55", "01"},
        ec \in {CnpjValid, CnpjBadSum, SubSeq(CnpjValid, 1, 13), <<>>},
        ef \in {<<>>, CpfValid, CpfBadSum}, razao \in {L3, <<Letter>>},
        dc \in {<<>>, CnpjValid, CnpjBadSum},
        df \in {<<>>, CpfValid, CpfBadSum}}

\* the item lists of a document whose products amount to p cents: none, one
\* item of p cents, one item of two units at p cents that says p cents, one
\* item of p cents and another of 3
ItemShapes == {"none", "one", "double", "two"}

Itens(shape, p) ==
    CASE shape = "none" -> <<>>
      [] shape = "one" -> <<Produto(1, p, p)>>
      [] shape = "double" -> <<Produto(2, p, p)>>
      [] OTHER -> <<Produto(1, p, p), Produto(1, 3, 3)>>

\* documents with nothing wrong in parties and metadata, whose amounts vary
ValueDocs ==
    {[metadados |-> Metadados(<<1, 2, 3>>, "55"),
      emitente |-> Emitente(CnpjValid, <<>>, L3),
      destinatario |-> Destinatario(CnpjValid, <<>>),
      valores |-> Valores(total, produtos, desconto, frete, outros),
      itens |-> Itens(shape, produtos)] :
        total \in 0..MaxCents, produtos \in 0..MaxCents,
        desconto \in {0, 1}, frete \in {0, 1}, outros \in {0, 1},
        shape \in ItemShapes}

\* a document with nothing wrong
BaseDoc ==
    [metadados |-> Metadados(<<1, 2, 3>>, "55"),
     emitente |-> Emitente(CnpjValid, <<>>, L3),
     destinatario |-> Destinatario(CnpjValid, <<>>),
     valores |-> Valores(3, 3, 0, 0, 0),
     itens |-> <<Produto(1, 3, 3)>>]

\* the document with nothing wrong, with some of its fields emptied or
\* malformed: the issue date, the state of the issuer, the access key, the
\* number, and the description of the item
FieldDocs ==
    {[BaseDoc EXCEPT !.metadados.data_emissao = de, !.emitente.uf = uf,
                     !.metadados.chave_acesso = KeyText(k),
                     !.metadados.numero = numero,
                     !.itens = <<[Produto(1, 3, 3) EXCEPT !.descricao = descricao]>>] :
        de \in {"2024-01-15", ""}, uf \in {"SP", ""}, k \in {0, 1, 9},
        numero \in {<<1, 2, 3>>, <<1, Letter>>}, descricao \in {L3, <<Letter>>}}

Documents == {EmptyDoc} \cup PartyDocs \cup ValueDocs \cup FieldDocs

\* the validator after construction, no call made
\* the report with is_valid taken to mean neither errors nor warnings
get_validation_report_no_warnings(errors, warnings) ==
    [is_valid |-> Len(errors) = 0 /\ Len(warnings) = 0,
     has_warnings |-> Len(warnings) > 0,
     errors |-> errors,
     warnings |-> warnings,
     error_count |-> Len(errors),
     warning_count |-> Len(warnings)]

\* NFValidator.get_validation_report over the lists of the object
get_validation_report(errors, warnings) ==
    [is_valid |-> Len(errors) = 0,
     has_warnings |-> Len(warnings) > 0,
     errors |-> errors,
     warnings |-> warnings,
     error_count |-> Len(errors),
     warning_count |-> Len(warnings)]

ValIdle ==
    [fn |-> "none", pc |-> "idle", s |-> <<>>, data |-> EmptyDoc,
     strict |-> FALSE, errors |-> <<>>, warnings |-> <<>>, ret |-> FALSE,
     report |-> get_validation_report(<<>>, <<>>)]

\* the lists an earlier call left in the object
Stale == <<Msg("Nota fiscal sem itens")>>

\* NFValidator.validate
validate ==
    /\ val.pc = "call" /\ val.fn = "validate"
    /\ LET v == validated(val.data)
       IN val' = [val EXCEPT !.pc = "done", !.errors = v.errors,
                             !.warnings = v.warnings,
                             !.ret = result(v, val.strict)]
    /\ UNCHANGED <<xp, files, nfiles, docs, log, now, ops, faults, wk>>

\* a call of get_validation_report after validate has returned
CallGetValidationReport ==
    /\ val.pc = "done" /\ val.fn = "validate"
    /\ val' = [val EXCEPT !.pc = "reported",
                          !.report = get_validation_report(val.errors, val.warnings)]
    /\ UNCHANGED <<xp, files, nfiles, docs, log, now, ops, faults, wk>>

\* a call of the static method validate_cnpj
CallValidateCnpj ==
    /\ val.pc = "call" /\ val.fn = "validate_cnpj"
    /\ val' = [val EXCEPT !.pc = "done", !.ret = validate_cnpj(val.s)]
    /\ UNCHANGED <<xp, files, nfiles, docs, log, now, ops, faults, wk>>

\* a call of the static method validate_cpf
CallValidateCpf ==
    /\ val.pc = "call" /\ val.fn = "validate_cpf"
    /\ val' = [val EXCEPT !.pc = "done", !.ret = validate_cpf(val.s)]
    /\ UNCHANGED <<xp, files, nfiles, docs, log, now, ops, faults, wk>>

\* ------------------------------------------------------------ XMLProcessor
\* element names and namespaces are sequences of characters
\* str.lower
lower_char(c) ==
    LET UPPER == <<"A", "B", "C", "D", "E", "F", "G", "H", "I", "J", "K", "L", "M",
                 "N", "O", "P", "Q", "R", "S", "T", "U", "V", "W", "X", "Y", "Z">>
        LOWER == <<"a", "b", "c", "d", "e", "f", "g", "h", "i", "j", "k", "l", "m",
                 "n", "o", "p", "q", "r", "s", "t", "u", "v", "w", "x", "y", "z">>
    IN IF \E i \in DOMAIN UPPER : UPPER[i] = c
       THEN LOWER[CHOOSE i \in DOMAIN UPPER : UPPER[i] = c]
       ELSE c

lower(s) == [i \in DOMAIN s |-> lower_char(s[i])]

\* sub in s
contains(sub, s) ==
    \E i \in 0..(Len(s) - Len(sub)) : SubSeq(s, i + 1, i + Len(sub)) = sub

\* the namespaces of the fiscal documents
NS_NFE  == <<"h", "t", "t", "p", ":", "/", "/", "w", "w", "w", ".", "p", "o", "r", "t", "a", "l", "f", "i", "s", "c", "a", "l", ".", "i", "n", "f", ".", "b", "r", "/", "n", "f", "e">>
NS_CTE  == <<"h", "t", "t", "p", ":", "/", "/", "w", "w", "w", ".", "p", "o", "r", "t", "a", "l", "f", "i", "s", "c", "a", "l", ".", "i", "n", "f", ".", "b", "r", "/", "c", "t", "e">>
NS_MDFE == <<"h", "t", "t", "p", ":", "/", "/", "w", "w", "w", ".", "p", "o", "r", "t", "a", "l", "f", "i", "s", "c", "a", "l", ".", "i", "n", "f", ".", "b", "r", "/", "m", "d", "f", "e">>

\* Element.tag as ElementTree gives it: {namespace}name, or the bare name
\* of an element in no namespace
element_tag(ns, name) ==
    IF ns = <<>> THEN name ELSE <<"{">> \o ns \o <<"}">> \o name

\* the documents handed to load_xml: the root's namespace and name, the
\* text of ide/mod ("absent" when there is no such element) and whether the
\* file parses
RootNames(ns) ==
    IF ns = NS_NFE
    THEN {<<"N", "F", "e">>, <<"n", "f", "e", "P", "r", "o", "c">>, <<"p", "r", "o", "c", "E", "v", "e", "n", "t", "o", "N", "F", "e">>, <<"r", "e", "t", "C", "o", "n", "s", "S", "t", "a", "t", "S", "e", "r", "v">>}
    ELSE IF ns = NS_CTE
    THEN {<<"C", "T", "e">>, <<"c", "t", "e", "P", "r", "o", "c">>, <<"p", "r", "o", "c", "E", "v", "e", "n", "t", "o", "C", "T", "e">>}
    ELSE IF ns = NS_MDFE
    THEN {<<"M", "D", "F", "e">>, <<"m", "d", "f", "e", "P", "r", "o", "c">>}
    ELSE {<<"N", "F", "e">>, <<"n", "f", "e", "P", "r", "o", "c">>, <<"C", "T", "e">>, <<"c", "t", "e", "P", "r", "o", "c">>, <<"M", "D", "F", "e">>, <<"m", "d", "f", "e", "P", "r", "o", "c">>, <<"n", "o", "t", "a">>, <<"h", "t", "m", "l">>}

XmlDocs ==
    UNION {{[ns |-> ns, name |-> name, mod |-> mod, wellformed |-> wf] :
               name \in RootNames(ns),
               mod \in {"absent", "", "55", "65", "57"},
               wf \in BOOLEAN} : ns \in {NS_NFE, NS_CTE, NS_MDFE, <<>>}}

\* __init__: nothing loaded
XpIdle ==
    [pc |-> "idle",
     doc |-> [ns |-> <<>>, name |-> <<>>, mod |-> "absent", wellformed |-> FALSE],
     xml_root |-> FALSE, doc_type |-> "None",
     ret |-> "none", data |-> "none"]

\* _get_text(path, default): the text of the first element found, the
\* default when there is none or its text is empty
_get_text(doc, path, default) ==
    IF path = "ide/mod" /\ doc.mod \notin {"absent", ""} THEN doc.mod ELSE default

\* _detect_doc_type: substrings of the lower-cased tag, in this order
_detect_doc_type(doc) ==
    LET root_tag == lower(element_tag(doc.ns, doc.name))
    IN IF contains(<<"n", "f", "e">>, root_tag) \/ contains(<<"n", "f", "e", "p", "r", "o", "c">>, root_tag)
       THEN (IF _get_text(doc, "ide/mod", "55") = "65" THEN "NFCe" ELSE "NFe")
       ELSE IF contains(<<"c", "t", "e">>, root_tag) THEN "CTe"
       ELSE IF contains(<<"m", "d", "f", "e">>, root_tag) THEN "MDFe"
       ELSE "Unknown"

\* load_xml: a file that does not parse raises inside the try, nothing
\* after ET.parse is assigned and False is returned
load_xml ==
    /\ xp.pc = "new"
    /\ xp' = IF xp.doc.wellformed
             THEN [xp EXCEPT !.pc = "loaded", !.xml_root = TRUE,
                             !.doc_type = _detect_doc_type(xp.doc),
                             !.ret = "True"]
             ELSE [xp EXCEPT !.pc = "loaded", !.ret = "False"]
    /\ UNCHANGED <<files, nfiles, docs, log, now, ops, faults, wk, val>>

\* extract_data: {} when nothing is loaded, else the record of the eight
\* sections; the extractors return defaults for what they do not find
extract_data ==
    /\ xp.pc = "loaded"
    /\ xp' = [xp EXCEPT !.pc = "extracted",
                        !.data = IF xp.xml_root THEN "record" ELSE "empty"]
    /\ UNCHANGED <<files, nfiles, docs, log, now, ops, faults, wk, val>>

\* ------------------------------------------------------------- upload page
\* DatabaseManager.get_documento_by_chave, as check_duplicate_by_chave uses
\* it: is there a document with this access key
get_documento_by_chave(k) == k \in Chaves(docs)

\* registrar_resultado_bd: the record the page hands to add_resultado, its
\* path under "upload"
registrar_resultado_bd(arquivo_nome, resultado, causa) ==
    [dir |-> "upload", name |-> arquivo_nome, fid |-> 0,
     resultado |-> resultado, causa |-> causa]

\* one uploaded file on the page (the uploader takes .xml files only),
\* lines 224-275: a file that does not parse
\* or has no access key, and a file whose key is in the store, are recorded
\* by the page itself; any other file goes to process_uploaded_file, whose
\* pre-check finds no duplicate either
StartPage(w) ==
    /\ wk[w].pc = "idle"
    /\ ops < MaxOps
    /\ nfiles < MaxFiles
    /\ ops' = ops + 1
    /\ \E src \in {u \in SourceFiles : u.name.ext = "xml"} :
          LET c == src.content
              n == src.name
              chave == chave_acesso(c)
              fr == [Frame0 EXCEPT !.mode = "page", !.upc = c,
                                   !.path = [dir |-> "entrados", name |-> n]]
          IN IF chave = 0
             THEN /\ log' = Append(log, registrar_resultado_bd(n, "ERRO", "xml"))
                  /\ wk' = [wk EXCEPT ![w] = [fr EXCEPT !.ret = "erro"]]
             ELSE IF get_documento_by_chave(chave)
             THEN /\ log' = Append(log, registrar_resultado_bd(n, "ERRO", "dup"))
                  /\ wk' = [wk EXCEPT ![w] = [fr EXCEPT !.ret = "erro"]]
             ELSE /\ log' = log
                  /\ wk' = [wk EXCEPT ![w] =
                        [fr EXCEPT !.pc = "write",
                                   !.temp = _verificar_duplicado_antes_salvar(c, {}).temp]]
    /\ UNCHANGED <<xp, val, files, nfiles, docs, now, faults>>

\* lines 277-293: a result that is not a success is recorded by the page,
\* after the record process_file wrote
RetPage(w) ==
    /\ wk[w].pc = "ret"
    /\ wk[w].mode = "page"
    /\ log' = IF wk[w].success THEN log
              ELSE Append(log, registrar_resultado_bd(wk[w].path.name, "ERRO",
                                                      Causa(wk[w].br)))
    /\ wk' = [wk EXCEPT ![w] =
          [Frame0 EXCEPT !.mode = "page",
                         !.ret = IF wk[w].success THEN "sucesso" ELSE "erro"]]
    /\ UNCHANGED <<xp, val, files, nfiles, docs, now, ops, faults>>

\* DatabaseManager.get_statistics: the counts over registo_resultados
get_statistics ==
    [total_registros_resultado |-> Len(log),
     sucesso |-> Cardinality({i \in DOMAIN log : log[i].resultado = "Sucesso"}),
     insucesso |-> Cardinality({i \in DOMAIN log : log[i].resultado = "Insucesso"})]

\* ---------------------------------------------------------- specifications
Init ==
    /\ files = [f \in FileIds |-> [name |-> NoName, content |-> "none", loc |-> "none"]]
    /\ nfiles = 0
    /\ docs = <<>>
    /\ log = <<>>
    /\ now = 0
    /\ ops = 0
    /\ faults = 0
    /\ wk = [w \in Workers |-> Frame0]
    /\ val = ValIdle
    /\ xp = XpIdle

Step(w) ==
    \/ copy_to_entrados(w)
    \/ StartSingle(w)
    \/ StartBatch(w)
    \/ StartRun(w)
    \/ StartUpload(w)
    \/ UpWrite(w)
    \/ Begin(w)
    \/ Check(w)
    \/ Insert(w)
    \/ Move(w)
    \/ Log(w)
    \/ RetSingle(w)
    \/ RetBatch(w)
    \/ RetRun(w)

FaultStep(w) ==
    \/ CheckFault(w)
    \/ InsertFault(w)
    \/ MoveFault(w)
    \/ LogFault(w)
    \/ ListFault(w)

\* one worker, a store and a file system that work
Next == Step(1)

Spec == Init /\ [][Next]_vars

\* one worker, faults of the store and of the file system
NextFault == Step(1) \/ FaultStep(1)

SpecFault == Init /\ [][NextFault]_vars

\* process_file alone, as the second worker runs it
PfStep(w) ==
    \/ StartSingle(w)
    \/ Begin(w)
    \/ Check(w)
    \/ Insert(w)
    \/ Move(w)
    \/ Log(w)
    \/ RetSingle(w)

\* two workers: every operation on the first, process_file on the second
NextConc ==
    \/ copy_to_entrados(1)
    \/ StartBatch(1) \/ RetBatch(1)
    \/ StartUpload(1) \/ UpWrite(1)
    \/ \E w \in Workers : PfStep(w)

SpecConc == Init /\ [][NextConc]_vars

\* contents of the files found in entrados: the source contents, a resend
\* of k1 with other bytes, and an invoice whose key is not 44 digits
InContents == {"k1", "k1b", "k2", "k9", "bad"}

\* two files lie in entrados, a.xml and a_0.xml
InitIn ==
    /\ \E c1, c2 \in InContents :
          files = [f \in FileIds |->
             CASE f = 1 -> [name |-> [stem |-> "a", ts |-> <<>>, ext |-> "xml"],
                            content |-> c1, loc |-> "entrados"]
               [] f = 2 -> [name |-> [stem |-> "a", ts |-> <<0>>, ext |-> "xml"],
                            content |-> c2, loc |-> "entrados"]
               [] OTHER -> [name |-> NoName, content |-> "none", loc |-> "none"]]
    /\ nfiles = 2
    /\ docs = <<>>
    /\ log = <<>>
    /\ now = 0
    /\ ops = 0
    /\ faults = 0
    /\ wk = [w \in Workers |-> Frame0]
    /\ val = ValIdle
    /\ xp = XpIdle

\* one worker: the pipeline and the ERP marking of stored documents
NextErp == Step(1) \/ update_doc_erp_processado(1)

SpecErp == Init /\ [][NextErp]_vars

\* two workers, process_file on each
NextPair == PfStep(1) \/ PfStep(2)

SpecPair == InitIn /\ [][NextPair]_vars

\* the validator alone: a call is about to be made, on a document or on a
\* string
InitVal ==
    /\ files = [f \in FileIds |-> [name |-> NoName, content |-> "none", loc |-> "none"]]
    /\ nfiles = 0
    /\ docs = <<>>
    /\ log = <<>>
    /\ now = 0
    /\ ops = 0
    /\ faults = 0
    /\ wk = [w \in Workers |-> Frame0]
    /\ xp = XpIdle
    /\ \/ \E data \in Documents, strict, stale \in BOOLEAN :
             val = [ValIdle EXCEPT !.fn = "validate", !.pc = "call",
                                   !.data = data, !.strict = strict,
                                   !.errors = IF stale THEN Stale ELSE <<>>,
                                   !.warnings = IF stale THEN Stale ELSE <<>>]
       \/ \E s \in CnpjInputs :
             val = [ValIdle EXCEPT !.fn = "validate_cnpj", !.pc = "call", !.s = s]
       \/ \E s \in CpfInputs :
             val = [ValIdle EXCEPT !.fn = "validate_cpf", !.pc = "call", !.s = s]

NextVal ==
    validate \/ CallGetValidationReport \/ CallValidateCnpj \/ CallValidateCpf

SpecVal == InitVal /\ [][NextVal]_vars

\* process_file and its callers, the upload page among them
NextPage == Step(1) \/ StartPage(1) \/ RetPage(1)

SpecPage == Init /\ [][NextPage]_vars

\* the XML processor alone: one document, loaded and then extracted
InitXml ==
    /\ files = [f \in FileIds |-> [name |-> NoName, content |-> "none", loc |-> "none"]]
    /\ nfiles = 0
    /\ docs = <<>>
    /\ log = <<>>
    /\ now = 0
    /\ ops = 0
    /\ faults = 0
    /\ wk = [w \in Workers |-> Frame0]
    /\ val = ValIdle
    /\ \E doc \in XmlDocs : xp = [XpIdle EXCEPT !.pc = "new", !.doc = doc]

NextXml == load_xml \/ extract_data

SpecXml == InitXml /\ [][NextXml]_vars

\* one worker: process_file and the duplicate detector of the store
NextIn == PfStep(1) \/ DetectByHash(1)

SpecIn == InitIn /\ [][NextIn]_vars

\* a call of process_batch or _run has returned to its caller
Returned(w) == wk[w].pc = "idle" /\ wk[w].ret # "none"

TypeOK ==
    /\ nfiles \in 0..MaxFiles
    /\ now \in 0..MaxClock
    /\ ops \in 0..MaxOps
    /\ faults \in 0..MaxFaults
    /\ \A f \in FileIds : files[f].loc \in Dirs \cup {"none", "gone"}
    /\ \A w \in Workers : wk[w].pc \in {"idle", "write", "begin", "check",
                                        "insert", "move", "log", "ret"}

(***************************************************************************)
(* Properties                                                              *)
(***************************************************************************)

\* C1: when a call of process_file on an existing file returns, it has
\* appended exactly one outcome record and performed exactly one move of
\* the file to processados or rejeitados.
C1_ExactlyOneOutcomeAndMove ==
    \A w \in Workers :
        wk[w].pc = "ret" /\ wk[w].br # "missing"
            => wk[w].nOut = 1 /\ wk[w].nMove = 1

\* records of the log written for file f when it was handed in from entrados
FromPending(f) ==
    {i \in DOMAIN log : log[i].fid = f /\ log[i].dir = "entrados"}

DocsWith(k) == {d \in DOMAIN docs : docs[d].chave = k}

\* two byte-identical well-formed files, both processed from entrados, the
\* record of f before the record of g
ProcessedTwice(f, g) ==
    /\ f # g
    /\ files[f].content = files[g].content
    /\ chave_acesso(files[f].content) # 0
    /\ \E i \in FromPending(f), j \in FromPending(g) : i < j

\* C2: once two byte-identical files have been processed from entrados, one
\* after the other, the store holds exactly one document with their access
\* key, the log holds exactly two records for the two, the record of the
\* second is an Insucesso whose cause is the duplicate, and the second file
\* has left entrados and is not in processados.
C2_DuplicateLaw ==
    \A f, g \in FileIds :
        ProcessedTwice(f, g) =>
            /\ Cardinality(DocsWith(chave_acesso(files[f].content))) = 1
            /\ Cardinality(FromPending(f) \cup FromPending(g)) = 2
            /\ \A j \in FromPending(g) :
                  log[j].resultado = "Insucesso" /\ log[j].causa = "dup"
            /\ files[g].loc \notin {"entrados", "processados"}

C2_Witness == \E f, g \in FileIds : ProcessedTwice(f, g)

\* C3: no two stored documents carry the same access key.
C3_UniqueAccessKey ==
    \A i, j \in DOMAIN docs : i # j => docs[i].chave # docs[j].chave

\* an insert of a key that is in the store has been refused
C3_Witness ==
    \E w \in Workers :
        /\ wk[w].pc = "move"
        /\ wk[w].br \in {"db", "exc"}
        /\ wk[w].chave \in Chaves(docs)

\* file f was accepted: the call that read it stored its document and logged
\* a Sucesso record for it
Accepted(f) ==
    /\ \E d \in DOMAIN docs : docs[d].fid = f
    /\ \E i \in DOMAIN log : log[i].fid = f /\ log[i].resultado = "Sucesso"

SameKey(f, g) ==
    /\ f # g
    /\ chave_acesso(files[f].content) # 0
    /\ chave_acesso(files[f].content) = chave_acesso(files[g].content)

\* C4: of two files with the same access key processed by two workers, at
\* most one is accepted: the two are never both accepted, the store never
\* holds a document of each, and the log never holds a Sucesso of each.
C4_AtMostOneAccepted ==
    \A f, g \in FileIds :
        SameKey(f, g) =>
            /\ ~(Accepted(f) /\ Accepted(g))
            /\ Cardinality({d \in DOMAIN docs : docs[d].fid \in {f, g}}) <= 1
            /\ ~\E i, j \in DOMAIN log :
                   /\ log[i].fid = f /\ log[i].resultado = "Sucesso"
                   /\ log[j].fid = g /\ log[j].resultado = "Sucesso"

\* both workers passed the existence check before either inserted: one file
\* was accepted and is in processados, the other lost at the insert and is
\* in rejeitados
C4_Witness ==
    \E f, g \in FileIds :
        /\ SameKey(f, g)
        /\ Accepted(f)
        /\ files[f].loc = "processados"
        /\ files[g].loc = "rejeitados"
        /\ \E i \in DOMAIN log :
              log[i].fid = g /\ log[i].resultado = "Insucesso"
                             /\ log[i].causa \in {"db", "exc"}

\* C5: when a batch run over entrados has finished, entrados is empty and
\* processados and rejeitados together hold N more files than before, N the
\* number of files entrados held when the batch began.
C5_LifecycleTotality ==
    \A w \in Workers :
        Returned(w) /\ wk[w].folder = "entrados"
                    /\ wk[w].ret \in {"aggregate", "empty", "report", "nofiles"}
            => /\ InDir("entrados") = {}
               /\ Cardinality(Terminal) = wk[w].cnt0 + Cardinality(wk[w].pend0)

\* C6: a file in processados or rejeitados stays in that folder: no step
\* takes it to another folder or back to entrados.
C6_TerminalIsFinal ==
    [][\A f \in FileIds :
          files[f].loc \in {"processados", "rejeitados"}
              => files'[f].loc = files[f].loc]_vars

\* C7: every stored document has an outcome record of its file in the log.
C7_DocumentAndOutcomeTogether ==
    \A d \in DOMAIN docs : \E i \in DOMAIN log : log[i].fid = docs[d].fid

\* C8: when a batch run returns, every file of its listing has been handed
\* to process_file.
C8_BatchNeverAborts ==
    \A w \in Workers :
        Returned(w) /\ wk[w].mode \in {"batch", "tool"}
            => wk[w].handed = Len(wk[w].listed)

\* C9: what a batch run returns reports a total equal to the successes plus
\* the failures (duplicates counted as failures) and as many per-file
\* entries as the total; a run that ends on an error reports them too.
C9_TotalIsSum ==
    \A w \in Workers :
        Returned(w) /\ wk[w].mode \in {"batch", "tool"}
            => /\ wk[w].ret # "error"
               /\ wk[w].total = wk[w].sucesso + wk[w].falha + wk[w].duplicado
               /\ wk[w].ndet = wk[w].total

\* C10: when a batch run over entrados has finished, every file with an
\* unsupported extension that entrados held when it began is in rejeitados
\* and has an Insucesso record whose cause is the extension.
C10_UnsupportedIsRejected ==
    \A w \in Workers :
        Returned(w) /\ wk[w].folder = "entrados" /\ wk[w].ret # "error"
            => \A f \in wk[w].pend0 :
                  ~is_supported_file(files[f].name)
                      => /\ files[f].loc = "rejeitados"
                         /\ \E i \in DOMAIN log :
                               /\ log[i].fid = f
                               /\ log[i].resultado = "Insucesso"
                               /\ log[i].causa = "inv"

\* C11: once the store has failed during a batch run, no further file of the
\* batch is handed to process_file, and the run returns an error to its
\* caller.
C11_StoreFailureIsFatal ==
    \A w \in Workers :
        wk[w].mode \in {"batch", "tool"} /\ wk[w].fatal
            => /\ wk[w].pc # "begin"
               /\ Returned(w) => wk[w].ret = "error"

\* the store holds a document with the access key of content c or with its
\* hash
Duplicate(c) ==
    \E i \in DOMAIN docs :
        \/ docs[i].chave = chave_acesso(c)
        \/ arquivo_hash(docs[i]) = hash_arquivo(c)

\* C12: a candidate is reported as a duplicate exactly when the store holds
\* a record with its content hash or with its access key, by the detector
\* of the store and by the check of process_file alike.
C12_DuplicateIffHashOrKey ==
    \A w \in Workers :
        /\ wk[w].mode = "hash" /\ Returned(w)
               => (wk[w].ret = "dup" <=> Duplicate(files[wk[w].fid].content))
        /\ wk[w].pc = "insert" => ~Duplicate(files[wk[w].fid].content)
        /\ wk[w].pc = "move" /\ wk[w].br = "dup"
               => Duplicate(files[wk[w].fid].content)

\* C15: every stored document carries an access key of exactly 44 digits.
C15_StoredKeysAre44Digits ==
    \A i \in DOMAIN docs : CHAVE_NFE_PATTERN(KeyText(docs[i].chave))

\* a move of worker w that the file system carried out or refused
Moves(w) == wk[w].pc = "move" /\ wk'[w].pc = "log" /\ faults' = faults

\* C13: a move into processados or rejeitados never destroys a file that is
\* already there: every file of the destination folder is still in it after
\* the move, under its name and with its content.
C13_MoveNeverDestroys ==
    [][\A w \in Workers : Moves(w) =>
          \A g \in InDir(Destino(wk[w].br)) :
              g # FileAt(wk[w].path.dir, wk[w].path.name)
                  => files'[g] = files[g]]_vars

\* C14: a move of a missing source returns (False, None) and changes no
\* folder; a move of an existing source returns a path in the target folder,
\* the file is at that path and nothing is left at the source path.
C14_MoveContract ==
    [][\A w \in Workers : Moves(w) =>
          LET p == wk[w].path
              f == FileAt(p.dir, p.name)
              q == wk'[w].moved
          IN IF f = 0
             THEN /\ q = NoPath
                  /\ wk'[w].nMove = wk[w].nMove
                  /\ files' = files
             ELSE /\ wk'[w].nMove = wk[w].nMove + 1
                  /\ q.dir = Destino(wk[w].br)
                  /\ files'[f].loc = q.dir /\ files'[f].name = q.name
                  /\ files'[f].content = files[f].content
                  /\ \A g \in FileIds :
                        ~(files'[g].loc = p.dir /\ files'[g].name = p.name)]_vars

\* one call has moved its file to a terminal folder and the other call, on
\* the same path, found the source missing
C14_Witness ==
    \E v, w \in Workers :
        /\ v # w
        /\ wk[v].pc \in {"log", "ret"} /\ wk[v].nMove = 1
        /\ wk[v].moved.dir \in {"processados", "rejeitados"}
        /\ FileAt(wk[v].moved.dir, wk[v].moved.name) = wk[v].fid
        /\ wk[w].pc \in {"log", "ret"} /\ wk[w].path = wk[v].path
        /\ wk[w].nMove = 0 /\ wk[w].moved = NoPath /\ faults = 0

\* validate has returned
Validated == val.fn = "validate" /\ val.pc = "done"

\* a CNPJ of 14 digits, or a CPF of 11, whose check digits are wrong
BadCnpj(s) == CNPJ_PATTERN(s) /\ ~validate_cnpj(s)

BadCpf(s) == CPF_PATTERN(s) /\ ~validate_cpf(s)

\* C16: validate records an error and returns False for a document whose
\* issuer or recipient carries a CNPJ of 14 digits, or a CPF of 11, that
\* fails its checksum.
C16_ChecksumIsValidated ==
    Validated =>
        LET e == val.data.emitente
            d == val.data.destinatario
        IN BadCnpj(e.cnpj) \/ BadCpf(e.cpf) \/ BadCnpj(d.cnpj) \/ BadCpf(d.cpf)
              => Len(val.errors) > 0 /\ ~val.ret

\* the check digit of a weighted sum: 0 for a remainder below 2, otherwise
\* 11 minus the remainder
CheckDigit(total) == IF total % 11 < 2 THEN 0 ELSE 11 - (total % 11)

\* s[1]*w[1] + ... + s[n]*w[n]
RECURSIVE Weighted(_, _, _)
Weighted(s, w, n) == IF n = 0 THEN 0 ELSE s[n] * w[n] + Weighted(s, w, n - 1)

CnpjDigitsMatch(s) ==
    /\ s[13] = CheckDigit(Weighted(s, <<5, 4, 3, 2, 9, 8, 7, 6, 5, 4, 3, 2>>, 12))
    /\ s[14] = CheckDigit(Weighted(s, <<6, 5, 4, 3, 2, 9, 8, 7, 6, 5, 4, 3, 2>>, 13))

CnpjCalled == val.fn = "validate_cnpj" /\ val.pc = "done"

\* C17 (as amended): validate_cnpj accepts a string of 14 digits exactly
\* when its 13th and 14th digits are the two check digits, rejects
\* 11111111111111, the empty string and every string that is not 14 digits,
\* and every single-digit change of an accepted CNPJ whose check digits are
\* not both 0 is rejected.
C17_CnpjCheckDigits ==
    CnpjCalled =>
        LET s == val.s IN
        /\ Len(s) = 14 /\ isdigit(s) => (val.ret <=> CnpjDigitsMatch(s))
        /\ ~(Len(s) = 14 /\ isdigit(s)) => ~val.ret
        /\ s = Repeated(1, 14) => ~val.ret
        /\ val.ret /\ ~(s[13] = 0 /\ s[14] = 0)
              => \A a \in Alterations(s) : ~validate_cnpj(a)

\* an accepted CNPJ whose check digits are not both 0
C17_Witness == CnpjCalled /\ val.s = CnpjValid /\ val.ret

\* C17 (as stated): the same, with every single-digit change of every
\* accepted CNPJ rejected.
C17_EverySingleDigitChangeRejected ==
    CnpjCalled =>
        LET s == val.s IN
        /\ Len(s) = 14 /\ isdigit(s) => (val.ret <=> CnpjDigitsMatch(s))
        /\ ~(Len(s) = 14 /\ isdigit(s)) => ~val.ret
        /\ s = Repeated(1, 14) => ~val.ret
        /\ val.ret => \A a \in Alterations(s) : ~validate_cnpj(a)

CpfDigitsMatch(s) ==
    /\ s[10] = CheckDigit(Weighted(s, <<10, 9, 8, 7, 6, 5, 4, 3, 2>>, 9))
    /\ s[11] = CheckDigit(Weighted(s, <<11, 10, 9, 8, 7, 6, 5, 4, 3, 2>>, 10))

CpfCalled == val.fn = "validate_cpf" /\ val.pc = "done"

\* C18: validate_cpf accepts a string exactly when it is 11 digits, not
\* eleven copies of one digit, and its 10th and 11th digits are the two
\* check digits; eleven identical digits, the empty string and every string
\* that is not 11 digits are rejected.
C18_CpfCheckDigits ==
    CpfCalled =>
        LET s == val.s IN
        /\ val.ret <=> /\ Len(s) = 11 /\ isdigit(s)
                       /\ s # Repeated(s[1], 11)
                       /\ CpfDigitsMatch(s)
        /\ (\E d \in Digits : s = Repeated(d, 11)) => ~val.ret
        /\ ~(Len(s) = 11 /\ isdigit(s)) => ~val.ret

\* eleven copies of 1, whose check digits match, have been rejected
C18_Witness ==
    CpfCalled /\ val.s = Repeated(1, 11) /\ CpfDigitsMatch(val.s) /\ ~val.ret

Range(xs) == {xs[i] : i \in DOMAIN xs}

\* |grand total - (products - discount + freight + other)| in cents
CentsOff(v) ==
    LET d == v.valor_total
              - (v.valor_produtos - v.valor_desconto + v.valor_frete + v.valor_outros)
    IN IF d < 0 THEN 0 - d ELSE d

Divergence == Msg("Divergencia nos valores")

C20_StrictMode ==
    Validated =>
        (val.ret <=> Len(val.errors) = 0 /\ (val.strict => Len(val.warnings) = 0))

\* a strict call that recorded warnings and no error has returned False
C20_Witness ==
    /\ Validated /\ val.strict
    /\ Len(val.errors) = 0 /\ Len(val.warnings) > 0 /\ ~val.ret

\* one of the required fields of document d is missing
MissingRequired(d) ==
    \/ ~isdigit(d.metadados.numero)
    \/ d.metadados.data_emissao = ""
    \/ d.emitente.cnpj = <<>> /\ d.emitente.cpf = <<>>
    \/ Len(d.emitente.razao_social) < 3
    \/ d.itens = <<>>

\* every tax id present in d passes its checksum
ValidTaxIds(d) ==
    /\ d.emitente.cnpj # <<>> => validate_cnpj(d.emitente.cnpj)
    /\ d.emitente.cpf # <<>> => validate_cpf(d.emitente.cpf)
    /\ d.destinatario.cnpj # <<>> => validate_cnpj(d.destinatario.cnpj)
    /\ d.destinatario.cpf # <<>> => validate_cpf(d.destinatario.cpf)

\* quantity, unit value and total of every item of d are positive
PositiveLines(d) ==
    \A i \in DOMAIN d.itens :
        d.itens[i].quantidade > 0 /\ d.itens[i].valor_unitario > 0
            /\ d.itens[i].valor_total > 0

\* what validate requires besides: the state of the issuer, an access key
\* that is absent or 44 digits, item descriptions of 3 characters, positive
\* totals of the document
OtherHardRules(d) ==
    /\ d.emitente.uf # ""
    /\ d.metadados.chave_acesso = <<>> \/ CHAVE_NFE_PATTERN(d.metadados.chave_acesso)
    /\ \A i \in DOMAIN d.itens : Len(d.itens[i].descricao) >= 3
    /\ d.valores.valor_total > 0 /\ d.valores.valor_produtos > 0

\* C21 (as amended): validate records an error and returns False when a
\* required field is missing, validate({}) among them; a document with all
\* required fields, valid tax ids, positive line amounts, the state of the
\* issuer, a well-formed or absent access key, item descriptions of 3
\* characters and positive totals gets no error.
C21_RequiredFields ==
    Validated =>
        LET d == val.data IN
        /\ MissingRequired(d) => Len(val.errors) > 0 /\ ~val.ret
        /\ d = EmptyDoc => Len(val.errors) > 0 /\ ~val.ret
        /\ ~MissingRequired(d) /\ ValidTaxIds(d) /\ PositiveLines(d)
              /\ OtherHardRules(d) => Len(val.errors) = 0

\* validate({}) has returned False with errors
C21_Witness ==
    Validated /\ val.data = EmptyDoc /\ Len(val.errors) > 0 /\ ~val.ret

\* C21 (as stated): the same, where a document with all required fields,
\* valid tax ids and positive line amounts gets no error.
C21_RequiredFieldsSuffice ==
    Validated =>
        LET d == val.data IN
        /\ MissingRequired(d) => Len(val.errors) > 0 /\ ~val.ret
        /\ d = EmptyDoc => Len(val.errors) > 0 /\ ~val.ret
        /\ ~MissingRequired(d) /\ ValidTaxIds(d) /\ PositiveLines(d)
              => Len(val.errors) = 0

\* worker w makes a call of update_doc_erp_processado in this step
Updates(w) == ops' = ops + 1 /\ wk'[w].mode = "erp"

Lists_pending(w) ==
    ops' = ops + 1 /\ faults' = faults /\ wk'[w].mode = "batch"

\* the files of entrados with one of the five extensions
SupportedPending ==
    {PathOf(f) : f \in {g \in InDir("entrados") :
                          files[g].name.ext \in {"xml", "pdf", "png", "jpg", "jpeg"}}}

Eligible(w) == {f \in wk[w].pend0 : files[f].name.ext = "xml"}

\* the eligible files the listing of the run left out
Beyond(w) ==
    {f \in Eligible(w) :
        /\ files[f].loc = "entrados"
        /\ \A i \in DOMAIN wk[w].listed : wk[w].listed[i] # PathOf(f)}

InRun(w) ==
    wk[w].mode = "tool" /\ wk[w].folder = "entrados" /\ wk[w].pc # "idle"

RootKind(name) ==
    LET n == lower(name)
    IN IF n \in {<<"n", "f", "e">>, <<"n", "f", "e", "p", "r", "o", "c">>}
       THEN "invoice"
       ELSE IF n \in {<<"c", "t", "e">>, <<"c", "t", "e", "p", "r", "o", "c">>}
       THEN "transport"
       ELSE IF n \in {<<"m", "d", "f", "e">>, <<"m", "d", "f", "e", "p", "r", "o", "c">>}
       THEN "manifest"
       ELSE "other"

Loaded == xp.pc \in {"loaded", "extracted"} /\ xp.doc.wellformed

\* C25: once a well-formed document is loaded, load_xml has returned True
\* and the type is NFCe for an invoice root with model 65, NFe for an
\* invoice root with model 55 or none, CTe for a transport root, MDFe for a
\* freight-manifest root and Unknown for any other root; an Unknown
\* document still yields a record on extraction
C25_DocTypeFromRoot ==
    Loaded =>
        /\ xp.ret = "True"
        /\ RootKind(xp.doc.name) = "invoice" /\ xp.doc.mod = "65"
              => xp.doc_type = "NFCe"
        /\ RootKind(xp.doc.name) = "invoice" /\ xp.doc.mod \in {"55", "absent"}
              => xp.doc_type = "NFe"
        /\ RootKind(xp.doc.name) = "transport" => xp.doc_type = "CTe"
        /\ RootKind(xp.doc.name) = "manifest" => xp.doc_type = "MDFe"
        /\ RootKind(xp.doc.name) = "other" => xp.doc_type = "Unknown"
        /\ xp.pc = "extracted" /\ xp.doc_type = "Unknown" => xp.data = "record"

\* ------------------------------------------- success and the file's place
\* process_file writes its outcome record
Logs(w) == wk[w].pc = "log" /\ wk'[w].pc = "ret" /\ Len(log') = Len(log) + 1

\* C26: whenever process_file logs Sucesso for a file, the file is in
\* processados and its document is in the store; a file whose move failed
\* is not logged as a success while it is still in entrados
C26_SuccessMeansProcessed ==
    [][\A w \in Workers :
          Logs(w) /\ log'[Len(log')].resultado = "Sucesso" =>
             /\ files'[wk[w].fid].loc = "processados"
             /\ check_documento_existe(wk[w].chave)']_vars

\* the later run: the accepted file, left in entrados, is taken for a
\* duplicate of its own document and ends in rejeitados
RejectedAfterSuccess ==
    \E i, j \in DOMAIN log :
        /\ i < j
        /\ log[i].resultado = "Sucesso" /\ log[j].resultado = "Insucesso"
        /\ log[i].fid = log[j].fid /\ log[j].causa = "dup"
        /\ log[i].dir = "entrados" /\ log[j].dir = "entrados"
        /\ files[log[i].fid].loc = "rejeitados"

NeverRejectedAfterSuccess == ~RejectedAfterSuccess

\* ------------------------------------------------ uploads and pending files
\* process_uploaded_file writes the uploaded bytes into entrados
Writes(w) == wk[w].mode = "upload" /\ wk[w].pc = "write" /\ wk'[w].pc = "begin"

\* C27: when process_uploaded_file writes the upload into entrados, every
\* file of another content that was waiting there is still there with its
\* own content, a file of the same name as the upload included
C27_UploadKeepsPending ==
    [][\A w \in Workers : Writes(w) =>
          \A f \in InDir("entrados") :
             files[f].content # wk[w].upc => files'[f] = files[f]]_vars

\* --------------------------------------------------- the refused upload
\* process_uploaded_file is called
Uploads(w) == wk[w].pc = "idle" /\ wk'[w].mode = "upload" /\ ops' = ops + 1

\* C28: an upload whose access key is in the store returns the failure
\* marked as duplicate and changes neither the store nor any file of
\* entrados, processados and rejeitados; after the pre-check, duplicate or
\* not, no temporary file is left
C28_DuplicateUploadChangesNothing ==
    [][\A w \in Workers : Uploads(w) =>
          LET chave == chave_acesso(wk'[w].upc)
          IN /\ wk'[w].temp = {}
             /\ chave # 0 /\ check_documento_existe(chave) =>
                   /\ wk'[w].pc = "idle" /\ wk'[w].ret = "blocked"
                   /\ docs' = docs /\ files' = files /\ log' = log]_vars

C28_Witness ==
    \E w \in Workers :
        /\ wk[w].mode = "upload" /\ wk[w].ret = "blocked"
        /\ check_documento_existe(chave_acesso(wk[w].upc))
        /\ wk[w].temp = {}

\* ------------------------------------------------------ the outcome records
\* C29: every outcome record, written by process_file or by the upload
\* page, has the result Sucesso or Insucesso, and in get_statistics the
\* success count plus the failure count is the number of outcome records
C29_EveryOutcomeIsCounted ==
    /\ \A i \in DOMAIN log : log[i].resultado \in {"Sucesso", "Insucesso"}
    /\ get_statistics.sucesso + get_statistics.insucesso
          = get_statistics.total_registros_resultado

\* ------------------------------------------------------ the validation report
Reported == val.fn = "validate" /\ val.pc = "reported"

\* C30: the report asked for after a validate call has the errors and
\* warnings of that call alone, whatever an earlier call left behind, and
\* counts equal to the lengths of the lists; is_valid says that the call
\* found no error, which is the value the call returned in default mode
C30_ReportOfLastCall ==
    Reported =>
        LET v == validated(val.data)
        IN /\ val.report.errors = v.errors
           /\ val.report.warnings = v.warnings
           /\ val.report.error_count = Len(val.report.errors)
           /\ val.report.warning_count = Len(val.report.warnings)
           /\ val.report.is_valid = (v.errors = <<>>)
           /\ ~val.strict => val.report.is_valid = val.ret

\* a strict call that found warnings and no error, and its report
C30_Witness ==
    /\ Reported /\ val.strict
    /\ val.report.error_count = 0 /\ val.report.warning_count > 0
    /\ val.report.is_valid /\ ~val.ret

\* C30 as stated: is_valid is the value the call returned, in strict mode
\* as in default mode
C30_IsValidIsTheReturnedValue ==
    Reported => val.report.is_valid = val.ret

====
